---- MODULE Spec2Model ----
(***************************************************************************)
(* ThreadMeister (Fusion 360 add-in): model of the geometric reasoning     *)
(* engine and of the command-execute orchestration of ThreadMeister.py.    *)
(*                                                                         *)
(* Units.  Areas are integers in units of 1/100000 of the bore circle's    *)
(* area, sketch coordinates are integers in units of 1/10 of the bore      *)
(* radius, distances along the sketch normal are integers in micrometres   *)
(* (the source's 0.01 cm is 100).  Every comparison of the source is       *)
(* kept, multiplied out to integers.                                       *)
(***************************************************************************)
EXTENDS Integers, Sequences, FiniteSets, TLC

\* ------------------------------------------------------------------ bounds
MaxRegions == 3
ManyRegions == 16
MaxPoints == 2
MaxAnswers == 2
MaxEdges == 3
MaxInserts == 2

\* ------------------------------------------------- values of the kernel
\* target_circle.area, target_circle.radius, centre of the circle
target_area == 100000
circle_radius == 10
circle_center3d == [x |-> 0, y |-> 0]
Infinity == 999999999
MaxCombo == 15

None == [kind |-> "None", profs |-> <<>>]

Abs(n) == IF n < 0 THEN -n ELSE n
Min(a, b) == IF a < b THEN a ELSE b

\* A planar region as the kernel reports it: area, centroid, bounding box.
\* inDisc is the ground truth "this region is a fragment of the disc of the
\* constructed circle"; the resolver never reads it.
Reg(a, cx, cy, x0, x1, y0, y1, d) ==
    [area |-> a, cx |-> cx, cy |-> cy,
     minx |-> x0, maxx |-> x1, miny |-> y0, maxy |-> y1, inDisc |-> d]

Disc      == Reg(100000,  0, 0, -10, 10, -10, 10, TRUE)
HalfA     == Reg( 50000, -4, 0, -10,  0, -10, 10, TRUE)
HalfB     == Reg( 50000,  4, 0,   0, 10, -10, 10, TRUE)
Most97    == Reg( 97000,  0, 0, -10, 10, -10,  9, TRUE)
Most96999 == Reg( 96999,  0, 0, -10, 10, -10,  9, TRUE)
Most99997 == Reg( 99997,  0, 0, -10, 10, -10, 10, TRUE)
Sliver3   == Reg(     3,  0, 9,  -1,  1,   9, 10, TRUE)
Sliver3000 == Reg( 3000,  0, 9,  -3,  3,   9, 10, TRUE)
Ring      == Reg(100000,  0, 0, -14, 14, -14, 14, FALSE)
Over101   == Reg(101001,  0, 0, -10, 10, -10, 10, FALSE)
FarAway   == Reg( 50000, 11, 0,  10, 20, -10, 10, FALSE)
WideBox   == Reg( 50000,  6, 0,   0, 21, -10, 10, FALSE)
Sixteenth == Reg(  6250,  0, 0,  -3,  3,  -3,  3, TRUE)

Catalog == {Disc, HalfA, HalfB, Most97, Most96999, Most99997, Sliver3,
            Sliver3000, Ring, Over101, FarAway, WideBox}

SeqsUpTo(S, n) == UNION {[1..k -> S] : k \in 0..n}

\* sketches whose bore disc is cut into many equal fragments
ManyPlanes == {[i \in 1..ManyRegions |-> Sixteenth],
               [i \in 1..ManyRegions |-> IF i = ManyRegions THEN Disc ELSE Sixteenth]}

Planes == SeqsUpTo(Catalog, MaxRegions) \cup ManyPlanes

\* ------------------------------------------------ findProfileForCircle
bbox_margin == circle_radius * 1
circle_bbox_min_x == circle_center3d.x - circle_radius - bbox_margin
circle_bbox_max_x == circle_center3d.x + circle_radius + bbox_margin
circle_bbox_min_y == circle_center3d.y - circle_radius - bbox_margin
circle_bbox_max_y == circle_center3d.y + circle_radius + bbox_margin

\* COARSE FILTER 1: props.area > target_area * 1.01
AreaTooLarge(p) == p.area * 100 > target_area * 101

\* COARSE FILTER 2: distance > circle_radius (both sides squared)
CentroidOutside(p) ==
    (p.cx - circle_center3d.x) * (p.cx - circle_center3d.x)
      + (p.cy - circle_center3d.y) * (p.cy - circle_center3d.y)
    > circle_radius * circle_radius

\* COARSE FILTER 3
is_contained(p) ==
    /\ p.minx >= circle_bbox_min_x
    /\ p.maxx <= circle_bbox_max_x
    /\ p.miny >= circle_bbox_min_y
    /\ p.maxy <= circle_bbox_max_y

IsCandidate(p) == ~AreaTooLarge(p) /\ ~CentroidOutside(p) /\ is_contained(p)

\* the loop over sketch.profiles: candidates in sketch order, each the
\* profile (its index in sketch.profiles) with its area
RECURSIVE CoarseFilter(_, _)
CoarseFilter(profiles, idx) ==
    IF idx > Len(profiles) THEN <<>>
    ELSE (IF IsCandidate(profiles[idx])
          THEN <<[prof |-> idx, area |-> profiles[idx].area]>>
          ELSE <<>>) \o CoarseFilter(profiles, idx + 1)

\* candidates.sort(key=area, reverse=True): stable, equal areas keep order
RECURSIVE InsertDesc(_, _)
InsertDesc(sorted, c) ==
    IF sorted = <<>> THEN <<c>>
    ELSE IF Head(sorted).area >= c.area
         THEN <<Head(sorted)>> \o InsertDesc(Tail(sorted), c)
         ELSE <<c>> \o sorted

RECURSIVE SortDesc(_, _)
SortDesc(cands, n) ==
    IF n = 0 THEN <<>> ELSE InsertDesc(SortDesc(cands, n - 1), cands[n])

SortedCandidates(profiles) ==
    LET c == CoarseFilter(profiles, 1) IN SortDesc(c, Len(c))

\* a cap that never binds: combinations of every size are searched
max_profiles_Uncapped(cands) == Len(cands)

max_profiles(cands) == Min(Len(cands), MaxCombo)

RECURSIVE SumArea(_, _, _)
SumArea(cands, combo, i) ==
    IF i > Len(combo) THEN 0
    ELSE cands[combo[i]].area + SumArea(cands, combo, i + 1)

combo_area(cands, combo) == SumArea(cands, combo, 1)
difference(cands, combo) == Abs(combo_area(cands, combo) - target_area)

\* best_difference <= target_area * 0.00003 (for integers d, the same as
\* d * 100000 <= target_area * 3, kept within 32 bits)
NearPerfect(d) == d <= (target_area * 3) \div 100000
\* a tolerance test that rejects a difference of exactly 3%
WithinTolerance_Strict(d) == d * 100 < target_area * 3

\* not (best_difference > tolerance), tolerance = target_area * 0.03
WithinTolerance(d) == ~(d * 100 > target_area * 3)

\* itertools.combinations(candidates, r): lexicographic successor
Pivots(combo, n) ==
    {i \in 1..Len(combo) : combo[i] < n - Len(combo) + i}
HasNextCombo(combo, n) == Pivots(combo, n) # {}
NextCombo(combo, n) ==
    LET i == CHOOSE k \in Pivots(combo, n) : \A j \in Pivots(combo, n) : j <= k
    IN [j \in 1..Len(combo) |->
          IF j < i THEN combo[j] ELSE combo[i] + 1 + (j - i)]
FirstCombo(r) == [j \in 1..r |-> j]

\* a return that wraps every result in a collection
Returned_AlwaysCollection(best_profiles) ==
    [kind |-> "ObjectCollection", profs |-> best_profiles]

\* lines 664-670: one profile is returned as itself, several as a collection
Returned(best_profiles) ==
    IF Len(best_profiles) = 1
    THEN [kind |-> "Profile", profs |-> best_profiles]
    ELSE [kind |-> "ObjectCollection", profs |-> best_profiles]

\* lines 653-670
Finish(s, bd, bp) ==
    [s EXCEPT !.pc = "done", !.best_difference = bd, !.best_profiles = bp,
              !.result = IF WithinTolerance(bd) THEN Returned(bp) ELSE None]

\* the frame of one call before its first statement
FPEntry == [pc |-> "entry", candidates |-> <<>>, r |-> 0, combo |-> <<>>,
            best_profiles |-> <<>>, best_difference |-> Infinity,
            evaluated |-> 0, result |-> None]

\* lines 580-629: filter, sort, start of the search
FPStart(profiles) ==
    LET c == SortedCandidates(profiles) IN
    IF c = <<>>
    THEN [FPEntry EXCEPT !.pc = "done"]
    ELSE [FPEntry EXCEPT !.pc = "search", !.candidates = c, !.r = 1,
                         !.combo = FirstCombo(1)]

\* a search that leaves only the inner loop on a near-perfect match and goes
\* on with the next size
AfterEval_InnerBreakOnly(s, bd, bp) ==
    IF s.r < max_profiles(s.candidates)
         /\ (NearPerfect(bd) \/ ~HasNextCombo(s.combo, Len(s.candidates)))
    THEN [s EXCEPT !.best_difference = bd, !.best_profiles = bp,
                   !.r = s.r + 1, !.combo = FirstCombo(s.r + 1)]
    ELSE IF ~NearPerfect(bd) /\ HasNextCombo(s.combo, Len(s.candidates))
    THEN [s EXCEPT !.best_difference = bd, !.best_profiles = bp,
                   !.combo = NextCombo(s.combo, Len(s.candidates))]
    ELSE Finish(s, bd, bp)

\* where the loops go after one combination: both breaks on a near-perfect
\* match, else the next combination, else the next size, else the end
AfterEval(s, bd, bp) ==
    IF NearPerfect(bd) THEN Finish(s, bd, bp)
    ELSE IF HasNextCombo(s.combo, Len(s.candidates))
    THEN [s EXCEPT !.best_difference = bd, !.best_profiles = bp,
                   !.combo = NextCombo(s.combo, Len(s.candidates))]
    ELSE IF s.r < max_profiles(s.candidates)
    THEN [s EXCEPT !.best_difference = bd, !.best_profiles = bp,
                   !.r = s.r + 1, !.combo = FirstCombo(s.r + 1)]
    ELSE Finish(s, bd, bp)

\* lines 633-646: one combination is evaluated
FPEval(s) ==
    LET d == difference(s.candidates, s.combo)
        better == d < s.best_difference
        bd == IF better THEN d ELSE s.best_difference
        bp == IF better
              THEN [i \in 1..Len(s.combo) |-> s.candidates[s.combo[i]].prof]
              ELSE s.best_profiles
    IN AfterEval([s EXCEPT !.evaluated = s.evaluated + 1], bd, bp)

RECURSIVE RunSearch(_)
RunSearch(s) == IF s.pc = "done" THEN s ELSE RunSearch(FPEval(s))

\* the whole call
findProfileForCircle(profiles) == RunSearch(FPStart(profiles)).result

\* --------------------------------------- findExtrudeDirectionFromSketch
Containment == {"PointInside", "PointOn", "PointOutside"}

\* testDistances a sample grid without the 0.1 mm sample
testDistances_Coarse == <<500, 1000, 2000>>

\* testDistances = [0.01, 0.05, 0.1, 0.2] cm, here in micrometres
testDistances == <<100, 500, 1000, 2000>>
verySmallDistance == 10

\* signed offsets along zAxis at which the body can be asked
Offsets == {100, 500, 1000, 2000, 10, -100, -500, -1000, -2000, -10}

\* a sample that counts only when strictly inside
EntersAt_InsideOnly(c) == c = "PointInside"

\* lines 958-959 and 978-979
EntersAt(c) == c = "PointInside" \/ c = "PointOn"

\* lines 946-962 and 966-982: the offsets one loop asks for, up to its break
RECURSIVE LoopQueries(_, _, _)
LoopQueries(contain, sign, i) ==
    IF i > Len(testDistances) THEN <<>>
    ELSE <<sign * testDistances[i]>>
           \o (IF EntersAt(contain[sign * testDistances[i]]) THEN <<>>
               ELSE LoopQueries(contain, sign, i + 1))

\* the flag a loop leaves: set iff the loop ended by its break
IsInside(contain, sign) ==
    LET q == LoopQueries(contain, sign, 1)
    IN EntersAt(contain[q[Len(q)]])

\* a probe decision with the two sides exchanged
ProbeDecision_Swapped(posOut, negOut) ==
    IF posOut /\ ~negOut THEN "Positive"
    ELSE IF negOut /\ ~posOut THEN "Negative"
    ELSE "Positive"

\* lines 1021-1032
ProbeDecision(posOut, negOut) ==
    IF posOut /\ ~negOut THEN "Negative"
    ELSE IF negOut /\ ~posOut THEN "Positive"
    ELSE "Positive"

\* every pointContainment call of one run, in order
AllQueries(contain) ==
    LoopQueries(contain, 1, 1) \o LoopQueries(contain, -1, 1)
      \o (IF IsInside(contain, 1) /\ IsInside(contain, -1)
          THEN <<verySmallDistance, -verySmallDistance>> ELSE <<>>)

\* the frame of one call before its first statement
DirEntry == [pc |-> "entry", positiveIsInside |-> FALSE,
             negativeIsInside |-> FALSE, probed |-> FALSE, raised |-> FALSE,
             messageBox |-> FALSE, result |-> "None"]

\* the whole call; raiseAt is the offset at which pointContainment raises
\* (0: it never raises), caught by the except clause of lines 1038-1043
findExtrudeDirectionFromSketch(contain, raiseAt) ==
    LET pos == IsInside(contain, 1)
        neg == IsInside(contain, -1)
        posOut == contain[verySmallDistance] = "PointOutside"
        negOut == contain[-verySmallDistance] = "PointOutside"
    IN IF \E k \in DOMAIN AllQueries(contain) : AllQueries(contain)[k] = raiseAt
       THEN [DirEntry EXCEPT !.pc = "done", !.raised = TRUE,
                             !.messageBox = TRUE]
       ELSE [DirEntry EXCEPT
               !.pc = "done",
               !.positiveIsInside = pos,
               !.negativeIsInside = neg,
               !.probed = pos /\ neg,
               !.result = IF pos /\ ~neg THEN "Positive"
                          ELSE IF neg /\ ~pos THEN "Negative"
                          ELSE IF pos /\ neg THEN ProbeDecision(posOut, negOut)
                          ELSE "None"]

\* offsets at which the kernel call is made to raise: never, at the first
\* sample, at the secondary probe
RaiseOffsets == {0, 100, 10}

\* ------------------------------------------------ findDistanceThroughBody
maxSteps == 1000
stepSize == 1000
exitMargin == 2000
fallbackDistance == 100000

\* lines 1203-1227: march[i] is the containment of the sample i mm from the
\* anchor; insideBody is set at the first inside sample, the exit is the
\* first outside sample after it
findDistanceThroughBody(march, raises) ==
    LET IsFirstInside(i) == /\ march[i] = "PointInside"
                            /\ \A j \in 1..i - 1 : march[j] # "PointInside"
        IsExit(i) == /\ march[i] = "PointOutside"
                     /\ \E k \in 1..i - 1 : IsFirstInside(k)
                     /\ \A j \in 1..i - 1 :
                          march[j] = "PointOutside" =>
                              \A k \in 1..j : march[k] # "PointInside"
    IN IF raises
       THEN [distance |-> fallbackDistance, messageBox |-> TRUE]
       ELSE IF \E i \in 1..maxSteps : IsExit(i)
       THEN [distance |->
               (CHOOSE i \in 1..maxSteps : IsExit(i)) * stepSize + exitMargin,
             messageBox |-> FALSE]
       ELSE [distance |-> fallbackDistance, messageBox |-> FALSE]

\* the frame of findDistanceThroughBody before its first statement;
\* exitDistance 0 is None
TDEntry == [pc |-> "entry", i |-> 0, queries |-> 0, insideBody |-> FALSE,
            exitDistance |-> 0, result |-> 0, messageBox |-> FALSE]

\* lines 1200-1203: the locals, the first index of range(1, 1001)
TDStart(s) == [s EXCEPT !.pc = "loop", !.i = 1]

\* an exit test that takes a sample on the surface for one past the body
Exited_OnBoundary(insideBody, c) == insideBody /\ c # "PointInside"

\* line 1218
Exited(insideBody, c) == insideBody /\ c = "PointOutside"

\* a loop that goes on to one sample past the last of range(1, 1001)
TDStep_PastLast(s, c) ==
    LET inside == s.insideBody \/ c = "PointInside"
        asked == [s EXCEPT !.queries = @ + 1, !.insideBody = inside]
    IN IF Exited(inside, c)
       THEN [asked EXCEPT !.exitDistance = s.i * stepSize, !.pc = "after"]
       ELSE IF s.i < maxSteps + 1
       THEN [asked EXCEPT !.i = @ + 1]
       ELSE [asked EXCEPT !.pc = "after"]

\* lines 1203-1220: one iteration on the containment c of sample i
TDStep(s, c) ==
    LET inside == s.insideBody \/ c = "PointInside"
        asked == [s EXCEPT !.queries = @ + 1, !.insideBody = inside]
    IN IF Exited(inside, c)
       THEN [asked EXCEPT !.exitDistance = s.i * stepSize, !.pc = "after"]
       ELSE IF s.i < maxSteps
       THEN [asked EXCEPT !.i = @ + 1]
       ELSE [asked EXCEPT !.pc = "after"]

\* lines 1222-1227
TDReturn(s) ==
    [s EXCEPT !.pc = "done",
              !.result = IF s.exitDistance # 0
                         THEN s.exitDistance + exitMargin
                         ELSE fallbackDistance]

\* lines 1229-1232: pointContainment raises on sample i
TDRaise(s) ==
    [s EXCEPT !.pc = "done", !.queries = @ + 1, !.messageBox = TRUE,
              !.result = fallbackDistance]

\* ------------------------------------------- what the marching probe meets
\* A solid along the probe axis: segs are its material intervals, micrometres
\* from the anchor, in order; answers: the kernel's classification given
\* sample by sample, then tail for every later sample.
AxisAt(b, i) ==
    IF b.kind = "answers"
    THEN IF i <= Len(b.prefix) THEN b.prefix[i] ELSE b.tail
    ELSE LET d == i * stepSize
         IN IF \E k \in 1..Len(b.segs) : b.segs[k][1] < d /\ d < b.segs[k][2]
            THEN "PointInside"
            ELSE IF \E k \in 1..Len(b.segs) :
                      (d = b.segs[k][1] \/ d = b.segs[k][2])
            THEN "PointOn"
            ELSE "PointOutside"

AxisMarch(b) == [i \in 1..maxSteps |-> AxisAt(b, i)]

Solid(segs) == [kind |-> "solid", segs |-> segs, prefix |-> <<>>,
                tail |-> "PointOutside"]
Plate(t) == Solid(<<<<0, t>>>>)
Answers(prefix, tail) == [kind |-> "answers", segs |-> <<>>,
                          prefix |-> prefix, tail |-> tail]

\* plates a bore is cut through, from a 0.3 mm sheet to more than the metre
\* the march covers
PlateThicknesses == {300, 1000, 1500, 2000, 2500, 10000, 10500, 999500,
                     1000000, 1200000}

\* a plate with a 2 mm cavity on the axis, a wall beyond an air gap
CavityBodies == {Solid(<<<<0, 3000>>, <<5000, 10000>>>>),
                 Solid(<<<<0, 1000>>, <<2000, 3000>>>>),
                 Solid(<<<<0, 2500>>, <<20000, 22500>>>>)}

AnswerPrefixes == UNION {[1..n -> Containment] : n \in 0..MaxAnswers}

AxisBodies == {Plate(t) : t \in PlateThicknesses} \cup CavityBodies
                \cup {Answers(p, t) : p \in AnswerPrefixes, t \in Containment}

\* the sample at which pointContainment raises: none, the first, the third
TDRaiseAt == {0, 1, 3}

NoAxis == [body |-> Solid(<<>>), raiseAt |-> 0]

\* ------------------------------------ findChamferEdge and the bottom edge
\* An edge of targetBody as the two searches read it: circle is its curve
\* type, radius in micrometres, dot = |edgeNormal . zAxis| in hundredths,
\* along and perp the components of vecToEdge along zAxis and across it.
\* half of the hole diameter of the insert, 4.4 mm
expectedRadius == 2200

\* line 1088, line 1094, lines 1109-1110: perpDist = vecToEdge.length -
\* abs(projection) > 0.01 is (along^2 + perp^2) > (|along| + 100)^2
chamferRadiusTol == 10
chamferMinDot == 99
chamferAxisTol == 100
PassesEntryFilters(e) ==
    /\ e.circle
    /\ ~(Abs(e.radius - expectedRadius) > chamferRadiusTol)
    /\ ~(e.dot < chamferMinDot)
    /\ ~(e.perp * e.perp >
           2 * Abs(e.along) * chamferAxisTol + chamferAxisTol * chamferAxisTol)

\* lines 1338-1369: perpDistance = sqrt(max(0, length^2 - along^2)) > 0.05
bottomRadiusTol == 50
bottomMinDot == 95
bottomAxisTol == 500
PassesBottomFilters(e) ==
    /\ e.circle
    /\ ~(Abs(e.radius - expectedRadius) > bottomRadiusTol)
    /\ ~(e.dot < bottomMinDot)
    /\ ~(e.perp > bottomAxisTol)

\* lines 1113 and 1369: the key of a candidate, abs(projection)
Distance(e) == Abs(e.along)

\* the candidates, by their place in targetBody.edges, in that order
EntryCandidates(edges) ==
    SelectSeq([i \in 1..Len(edges) |-> i],
              LAMBDA i : PassesEntryFilters(edges[i]))
BottomCandidates(edges) ==
    SelectSeq([i \in 1..Len(edges) |-> i],
              LAMBDA i : PassesBottomFilters(edges[i]))

\* list.sort(key, reverse): stable, an element goes behind the elements it
\* does not precede
Precedes(reverse, a, b) == IF reverse THEN a > b ELSE a < b

RECURSIVE SortInsert(_, _, _, _)
SortInsert(sorted, x, edges, reverse) ==
    IF sorted = <<>> THEN <<x>>
    ELSE IF Precedes(reverse, Distance(edges[x]), Distance(edges[Head(sorted)]))
    THEN <<x>> \o sorted
    ELSE <<Head(sorted)>> \o SortInsert(Tail(sorted), x, edges, reverse)

RECURSIVE SortByDistance(_, _, _)
SortByDistance(cands, edges, reverse) ==
    IF cands = <<>> THEN <<>>
    ELSE SortInsert(SortByDistance(SubSeq(cands, 1, Len(cands) - 1), edges,
                                   reverse),
                    cands[Len(cands)], edges, reverse)

\* lines 1080-1122: the place of the returned edge, 0 for None
findChamferEdge(edges) ==
    LET candidateEdges == SortByDistance(EntryCandidates(edges), edges, FALSE)
    IN IF Len(candidateEdges) > 0 THEN candidateEdges[1] ELSE 0

\* the bottom search with the order of the entry search
bottomEdge_Closest(edges) ==
    LET candidateEdges == SortByDistance(BottomCandidates(edges), edges, FALSE)
    IN IF Len(candidateEdges) = 0 THEN 0 ELSE candidateEdges[1]

\* lines 1320-1419 of addBottomRadiusToBlindHole: the place of bottomEdge,
\* 0 when the function returns None for want of a candidate
bottomEdge(edges) ==
    LET candidateEdges == SortByDistance(BottomCandidates(edges), edges, TRUE)
    IN IF Len(candidateEdges) = 0 THEN 0 ELSE candidateEdges[1]

Edge(circle, radius, dot, perp, along) ==
    [circle |-> circle, radius |-> radius, dot |-> dot, perp |-> perp,
     along |-> along]

\* edges a body shows: the two ends of a 6.7 mm bore of the insert, the end
\* of a bore on the far side of a 10 mm plate, a circle behind the sketch
\* plane, radii 0.03 mm and 0.08 mm off, a tilted circle, a circle 0.3 mm off
\* the axis at depth, the mouth of a neighbouring bore, a straight edge
EdgeCatalog ==
    {Edge(TRUE, 2200, 100, 0, 0), Edge(TRUE, 2200, 100, 0, 6700),
     Edge(TRUE, 2200, 100, 0, 10000), Edge(TRUE, 2200, 100, 0, -3000),
     Edge(TRUE, 2230, 100, 0, 6700), Edge(TRUE, 2280, 100, 0, 0),
     Edge(TRUE, 2200, 97, 0, 8000), Edge(TRUE, 2200, 100, 300, 6700),
     Edge(TRUE, 2200, 100, 20000, 0), Edge(FALSE, 0, 0, 0, 0)}

EdgeLists == UNION {[1..n -> EdgeCatalog] : n \in 0..MaxEdges}

\* the two searches before they run; -1: not run
ELEntry == [edges |-> <<>>, entry |-> -1, bottom |-> -1]

\* ---------------------------------------------- the body along the normal
\* The target body seen from the anchor of a point: solid from down below the
\* sketch plane to up above it (micrometres along zAxis); up = down = 0 is a
\* point that does not lie on the body.
ContainAt(shape, o) ==
    IF shape.up = 0 /\ shape.down = 0 THEN "PointOutside"
    ELSE IF o < shape.up /\ o > -shape.down THEN "PointInside"
    ELSE IF o = shape.up \/ o = -shape.down THEN "PointOn"
    ELSE "PointOutside"

ShapeBody(shape) == [o \in Offsets |-> ContainAt(shape, o)]
ShapeMarch(shape, sign) ==
    [i \in 1..maxSteps |-> ContainAt(shape, sign * i * stepSize)]

\* what the points of a batch are given: no body, a 10 mm plate below the
\* sketch plane, a solid the sketch plane cuts through
OrchShapes == {[up |-> 0, down |-> 0], [up |-> 0, down |-> 10000],
               [up |-> 3000, down |-> 7000]}
OrchPlanes == {<<>>, <<Disc>>, <<HalfA, HalfB>>}
OrchRaiseOffsets == {0, 100}

\* the insert of the command: 'M3 x 5.7mm (standard)', and the extra depth
insertLen == 5700
blind_hole_extra_depth == 1000
holeDia == 4400

\* lines 705-707: radius = holeDia / 2.0, radius /= 10.0, diameter =
\* radius * 2.0. A length of n micrometres is n/1000 mm and n/10000 cm, so
\* the division by ten leaves the count of micrometres as it is.
diameter == (holeDia \div 2) * 2

\* a blind depth that leaves the extra depth out
holeDepth_InsertOnly(len, extra) == len

\* line 766: holeDepth = (insertLen + CONFIG['blind_hole_extra_depth']) / 10.0
holeDepth(len, extra) == len + extra

\* ------------------------------------------------------------ load_config
\* A value of config.ini as float() reads it: a number (thousandths of a
\* millimetre), nan, inf, -inf, text that is no number ("bad"), or no such
\* option ("absent").
Num(v) == [kind |-> "num", v |-> v]
NaN == [kind |-> "nan", v |-> 0]
PosInf == [kind |-> "inf", v |-> 0]
NegInf == [kind |-> "-inf", v |-> 0]
BadText == [kind |-> "bad", v |-> 0]
Absent == [kind |-> "absent", v |-> 0]

\* the comparisons of Python floats with a finite bound: each is False on nan
FloatGT(a, x) == a.kind = "inf" \/ (a.kind = "num" /\ a.v > x)
FloatLT(a, x) == a.kind = "-inf" \/ (a.kind = "num" /\ a.v < x)
FloatLE(a, x) == a.kind = "-inf" \/ (a.kind = "num" /\ a.v <= x)

\* float(text) raises ValueError
RaisesValueError(a) == a.kind = "bad"

\* config.getfloat(section, option, fallback = d)
GetFloat(a, d) == IF a.kind = "absent" THEN Num(d) ELSE a

default_chamfer_size == 500
default_extra_depth == 1000
default_bottom_radius == 500

\* lines 98-106
LoadChamferSize(a) ==
    LET chamfer == GetFloat(a, default_chamfer_size)
    IN IF RaisesValueError(chamfer) THEN Num(default_chamfer_size)
       ELSE IF FloatLE(chamfer, 0) \/ FloatGT(chamfer, 5000)
       THEN Num(default_chamfer_size)
       ELSE chamfer

\* lines 108-116
LoadExtraDepth(a) ==
    LET extra_depth == GetFloat(a, default_extra_depth)
    IN IF RaisesValueError(extra_depth) THEN Num(default_extra_depth)
       ELSE IF FloatLT(extra_depth, 0) \/ FloatGT(extra_depth, 10000)
       THEN Num(default_extra_depth)
       ELSE extra_depth

\* lines 124-132
LoadBottomRadius(a) ==
    LET bottom_radius == GetFloat(a, default_bottom_radius)
    IN IF RaisesValueError(bottom_radius) THEN Num(default_bottom_radius)
       ELSE IF FloatLT(bottom_radius, 0) \/ FloatGT(bottom_radius, 5000)
       THEN Num(default_bottom_radius)
       ELSE bottom_radius

\* CONFIG as the module sets it up
DefaultConfig == [chamfer_size |-> Num(default_chamfer_size),
                  blind_hole_extra_depth |-> Num(default_extra_depth),
                  bottom_radius_size |-> Num(default_bottom_radius)]

\* lines 96-132: the three sizes, read only when the section is there
LoadSettings(CONFIG, ini) ==
    IF ini.hasSettings
    THEN [chamfer_size |-> LoadChamferSize(ini.chamfer_size),
          blind_hole_extra_depth |-> LoadExtraDepth(ini.blind_hole_extra_depth),
          bottom_radius_size |-> LoadBottomRadius(ini.bottom_radius_size)]
    ELSE CONFIG

\* lines 165-210: one option of [Inserts]; comment: its name starts with '#';
\* parts: the comma separated values, none for an empty value
InsertAccepted(entry) ==
    /\ ~entry.comment
    /\ Len(entry.parts) = 3
    /\ \A i \in 1..3 : ~RaisesValueError(entry.parts[i])
    /\ ~(FloatLE(entry.parts[1], 0) \/ FloatGT(entry.parts[1], 50000))
    /\ ~(FloatLE(entry.parts[2], 0) \/ FloatGT(entry.parts[2], 100000))
    /\ ~(FloatLT(entry.parts[3], 0) \/ FloatGT(entry.parts[3], 20000))

InsertSpec(name, parts) ==
    [name |-> name, hole_dia |-> parts[1], insert_len |-> parts[2],
     min_wall |-> parts[3]]

\* lines 286-302, two of the thirteen
get_default_inserts ==
    {InsertSpec("M3 x 5.7mm (standard)", <<Num(4400), Num(5700), Num(1600)>>),
     InsertSpec("M4 x 8.1mm (standard)", <<Num(5600), Num(8100), Num(2000)>>)}

\* the names of the options of [Inserts], in the order of the file: the
\* file create_default_config writes starts with the names of the defaults
OptionNames == <<"M3 x 5.7mm (standard)", "M4 x 8.1mm (standard)",
                 "Custom 1", "Custom 2">>

\* a catalog that stays as the file gives it
LoadInserts_NoDefaults(ini) ==
    IF ini.hasInserts
    THEN {InsertSpec(OptionNames[i], ini.inserts[i].parts) :
            i \in {j \in 1..Len(ini.inserts) :
                     InsertAccepted(ini.inserts[j])}}
    ELSE {}

\* lines 162-217: the catalog, the defaults when nothing was accepted
LoadInserts(ini) ==
    LET accepted == IF ini.hasInserts
                    THEN {InsertSpec(OptionNames[i], ini.inserts[i].parts) :
                            i \in {j \in 1..Len(ini.inserts) :
                                     InsertAccepted(ini.inserts[j])}}
                    ELSE {}
    IN IF accepted = {} THEN get_default_inserts ELSE accepted

\* before load_config has run
ConfEntry == [pc |-> "entry", CONFIG |-> DefaultConfig, INSERT_SPECS |-> {},
              messageBox |-> FALSE]

\* lines 74-235; readable: config.read does not raise
load_config(c, ini) ==
    IF ini.readable
    THEN [pc |-> "loaded", CONFIG |-> LoadSettings(c.CONFIG, ini),
          INSERT_SPECS |-> LoadInserts(ini),
          messageBox |-> c.messageBox]
    ELSE [pc |-> "loaded", CONFIG |-> c.CONFIG,
          INSERT_SPECS |-> get_default_inserts, messageBox |-> TRUE]

\* what a hand-edited config.ini holds
SettingValues == {Absent, BadText, NaN, Num(0), Num(700), Num(20000)}

Option(comment, parts) == [comment |-> comment, parts |-> parts]
InsertOptions ==
    {Option(FALSE, <<Num(4400), Num(5700), Num(1600)>>),
     Option(FALSE, <<Num(0), Num(5700), Num(1600)>>),
     Option(FALSE, <<NaN, Num(5700), Num(1600)>>),
     Option(FALSE, <<Num(4400), Num(100001), Num(1600)>>),
     Option(FALSE, <<Num(4400), NegInf, Num(-1)>>),
     Option(FALSE, <<Num(4400), BadText, Num(1600)>>),
     Option(FALSE, <<Num(4400), Num(5700)>>),
     Option(TRUE, <<Num(4400), Num(5700), Num(1600)>>)}

NoInserts == [hasInserts : {FALSE}, inserts : {<<>>}]
SomeInserts == [hasInserts : {TRUE},
                inserts : UNION {[1..n -> InsertOptions] : n \in 0..MaxInserts}]
NoSettings == [hasSettings : {FALSE}, chamfer_size : {Absent},
               blind_hole_extra_depth : {Absent}, bottom_radius_size : {Absent}]
SomeSettings == [hasSettings : {TRUE}, chamfer_size : SettingValues,
                 blind_hole_extra_depth : SettingValues,
                 bottom_radius_size : SettingValues]

IniFile(readable, settings, inserts) ==
    [readable |-> readable, hasSettings |-> settings.hasSettings,
     chamfer_size |-> settings.chamfer_size,
     blind_hole_extra_depth |-> settings.blind_hole_extra_depth,
     bottom_radius_size |-> settings.bottom_radius_size,
     hasInserts |-> inserts.hasInserts, inserts |-> inserts.inserts]

NoIni == IniFile(TRUE, CHOOSE x \in NoSettings : TRUE,
                 CHOOSE x \in NoInserts : TRUE)

IniFiles ==
    {IniFile(TRUE, st, ins) : st \in NoSettings \cup SomeSettings,
                              ins \in NoInserts \cup SomeInserts}
      \cup {[NoIni EXCEPT !.readable = FALSE]}

\* ------------------------------------- the dialog and what it remembers
\* The text of an option of [Settings] that is not one of the sizes
NoOption == "<no option>"

\* str(bool), lines 274-277
str(b) == IF b THEN "True" ELSE "False"

\* value.lower() of configparser, on the texts a file of the model holds
lower(text) ==
    CASE text = "True" -> "true"
      [] text = "False" -> "false"
      [] OTHER -> text

\* RawConfigParser.BOOLEAN_STATES
TrueTexts == {"1", "yes", "true", "on"}
FalseTexts == {"0", "no", "false", "off"}

\* a getboolean that knows the texts of BOOLEAN_STATES as they are spelt
getboolean_AsSpelt(text, fallback) ==
    IF text = NoOption THEN fallback
    ELSE IF text \in TrueTexts THEN TRUE
    ELSE IF text \in FalseTexts THEN FALSE
    ELSE fallback

\* lines 117-150: config.getboolean('Settings', key, fallback=d), with the
\* except ValueError clause that sets the same d
getboolean(text, fallback) ==
    IF text = NoOption THEN fallback
    ELSE IF lower(text) \in TrueTexts THEN TRUE
    ELSE IF lower(text) \in FalseTexts THEN FALSE
    ELSE fallback

default_insert == "M3 x 5.7mm (standard)"

\* the keys of CONFIG the dialog reads, as the module sets CONFIG up (lines
\* 1253-1261) and CONFIG.get answers for the two keys it lacks (460, 476)
DefaultFlags ==
    [chamfer_enabled_default |-> TRUE, bottom_radius_enabled_default |-> FALSE,
     show_success_message |-> TRUE, hole_type_blind |-> TRUE,
     last_selected_insert |-> default_insert]

\* [Settings] without these options
NoFlags ==
    [chamfer_enabled_default |-> NoOption,
     bottom_radius_enabled_default |-> NoOption,
     show_success_message |-> NoOption, hole_type_blind |-> NoOption,
     last_selected_insert |-> NoOption]

\* lines 96, 117-160 of load_config: the flags, read only when config.read
\* did not raise and the section is there
LoadFlags(CONFIG, ini, file) ==
    IF ini.readable /\ ini.hasSettings
    THEN [chamfer_enabled_default |->
              getboolean(file.chamfer_enabled_default, TRUE),
          bottom_radius_enabled_default |->
              getboolean(file.bottom_radius_enabled_default, FALSE),
          show_success_message |->
              getboolean(file.show_success_message, TRUE),
          hole_type_blind |-> getboolean(file.hole_type_blind, TRUE),
          last_selected_insert |->
              IF file.last_selected_insert = NoOption THEN default_insert
              ELSE file.last_selected_insert]
    ELSE CONFIG

\* INSERT_SPECS.keys()
Names(INSERT_SPECS) == {spec.name : spec \in INSERT_SPECS}

\* the place of a name in the dropdown: the order of the keys
Place(name) == CHOOSE i \in 1..Len(OptionNames) : OptionNames[i] = name

\* lines 459-473: the item the dropdown opens with; NoOption: none
SelectedItem(names, lastSelected) ==
    IF lastSelected \in names THEN lastSelected
    ELSE IF names # {}
    THEN CHOOSE n \in names : \A m \in names : Place(n) <= Place(m)
    ELSE NoOption

\* the inputs of the dialog
NoDialog == [insertSize |-> NoOption, isBlindHole |-> TRUE,
             addChamfer |-> FALSE, addBottomRadius |-> FALSE,
             showSuccessMessage |-> FALSE]

\* lines 455-491 of CommandCreatedHandler.notify
CreateDialog(CONFIG, INSERT_SPECS) ==
    [insertSize |-> SelectedItem(Names(INSERT_SPECS),
                                 CONFIG.last_selected_insert),
     isBlindHole |-> CONFIG.hole_type_blind,
     addChamfer |-> CONFIG.chamfer_enabled_default,
     addBottomRadius |-> CONFIG.bottom_radius_enabled_default,
     showSuccessMessage |-> CONFIG.show_success_message]

\* lines 238-260: save_last_selected_insert
SaveInsert(file, insert_name) ==
    [file EXCEPT !.last_selected_insert = insert_name]

\* lines 262-284: save_checkbox_states
SaveCheckboxes(file, chamfer_state, radius_state, show_state, is_blind) ==
    [file EXCEPT !.chamfer_enabled_default = str(chamfer_state),
                 !.bottom_radius_enabled_default = str(radius_state),
                 !.show_success_message = str(show_state),
                 !.hole_type_blind = str(is_blind)]

\* the add-in with no command created yet: file, the flag options of
\* [Settings] in config.ini; CONFIG, its flags in memory; dialog, the inputs
\* as the dialog opened; used, the inputs as the command was executed;
\* saved, which of the two writes of that command reached the file; raised:
\* the lookup of the insert raised
DlgEntry == [pc |-> "closed", file |-> NoFlags, CONFIG |-> DefaultFlags,
             dialog |-> NoDialog, used |-> NoDialog,
             saved |-> [insert |-> FALSE, checkboxes |-> FALSE],
             raised |-> FALSE]

\* what a hand-edited [Settings] holds for the flags: none of them, texts
\* getboolean knows, texts it does not, the name of an insert that is gone
FlagFile(chamfer, radius, show, blind, last) ==
    [chamfer_enabled_default |-> chamfer,
     bottom_radius_enabled_default |-> radius,
     show_success_message |-> show, hole_type_blind |-> blind,
     last_selected_insert |-> last]
FlagFiles ==
    {NoFlags,
     FlagFile("yes", "True", "False", "False", "M4 x 8.1mm (standard)"),
     FlagFile("maybe", "maybe", NoOption, "maybe", "Removed"),
     FlagFile(NoOption, "0", "off", NoOption, "Removed")}

\* the [Inserts] of the files the dialog is opened on: none, empty, valid,
\* not a number, not numeric, and pairs of these
DialogInserts ==
    LET valid == Option(FALSE, <<Num(4400), Num(5700), Num(1600)>>)
        nan == Option(FALSE, <<NaN, Num(5700), Num(1600)>>)
        bad == Option(FALSE, <<Num(4400), BadText, Num(1600)>>)
    IN {[hasInserts |-> FALSE, inserts |-> <<>>]}
         \cup {[hasInserts |-> TRUE, inserts |-> l] :
                 l \in {<<>>, <<valid>>, <<nan>>, <<bad>>, <<valid, bad>>,
                        <<bad, valid>>, <<valid, valid>>}}

VARIABLES plane, fp, body, raiseAt, dir, cmd, model, messages, axis, td, el,
          ini, conf, dlg

vars == <<plane, fp, body, raiseAt, dir, cmd, model, messages, axis, td,
         el, ini, conf, dlg>>
dirVars == <<body, raiseAt, dir>>
profileVars == <<plane, fp>>
orchVars == <<cmd, model, messages>>
tdVars == <<axis, td>>
configVars == <<ini, conf, dlg>>
sideVars == <<tdVars, el, configVars>>

NoBody == [o \in Offsets |-> "PointOutside"]

\* the functions that are not running
SideIdle ==
    /\ axis = NoAxis /\ td = TDEntry /\ el = ELEntry
    /\ ini = NoIni /\ conf = ConfEntry /\ dlg = DlgEntry

\* ------------------------------------------- CommandExecuteHandler.notify
NoShape == [up |-> 0, down |-> 0]
NoExtent == [profile |-> None, direction |-> "None", distance |-> 0]

\* the frame of notify before its first statement; extent is the extInput of
\* the point in hand (profile, direction, distance); raised names the step
\* whose exception reached the outermost except clause
CmdIdle == [pc |-> "idle", nPoints |-> 0, isBlindHole |-> TRUE,
            addChamfer |-> FALSE, addBottomRadius |-> FALSE,
            includeChamfer |-> FALSE, includeBottomRadius |-> FALSE,
            showMessage |-> FALSE, point_idx |-> 0,
            successCount |-> 0, failedCount |-> 0, startIndex |-> -1,
            raised |-> "", groupError |-> FALSE,
            outcome |-> [k \in 1..MaxPoints |-> "pending"],
            shape |-> NoShape, extent |-> NoExtent]

\* the host model: by point, the circles of the sketch and the cut features;
\* the chamfers and fillets with the edge each was put on; the edges of
\* targetBody; the timeline (empty when the design keeps no history) and its
\* groups
ModelEmpty == [circles |-> {}, extrudes |-> {}, chamfers |-> {},
               fillets |-> {}, edges |-> <<>>, timeline |-> <<>>,
               groups |-> <<>>]

\* the timeline of a parametric design that holds the body
BaseTimeline == <<[op |-> "base", point |-> 0]>>

insertName == "M3 x 5.7mm (standard)"
chamfer_size == 500
bottom_radius_size == 500

\* the selected points lie 20 mm apart on the sketch plane
pointSpacing == 20000
PointX(k) == (k - 1) * pointSpacing

\* a message box: its text and, in the report, the two counts it states
Msg(text) == [text |-> text, successCount |-> 0, failedCount |-> 0]

CmdStart(n, blind, chamfer, bottom, show) ==
    [CmdIdle EXCEPT !.pc = "start", !.nPoints = n, !.isBlindHole = blind,
                    !.addChamfer = chamfer, !.addBottomRadius = bottom,
                    !.showMessage = show]

\* a failure branch that counts the point but leaves its circle
OnPointFailed_KeepCircle(m, k) == m

\* lines 747 and 757: circle.deleteMe() of a failed point
OnPointFailed(m, k) == [m EXCEPT !.circles = @ \ {k}]

\* the loop goes to its next point: the locals of the point are dropped
NextPoint(c) ==
    [c EXCEPT !.point_idx = @ + 1, !.pc = "place", !.shape = NoShape,
              !.extent = NoExtent]

\* a failure branch that leaves the loop
FailPoint_Break(c, reason) ==
    [NextPoint([c EXCEPT !.failedCount = @ + 1,
                         !.outcome[c.point_idx] = reason])
       EXCEPT !.point_idx = c.nPoints + 1]

\* lines 746-748 and 756-758: count, (delete,) continue
FailPoint(c, reason) ==
    NextPoint([c EXCEPT !.failedCount = @ + 1, !.outcome[c.point_idx] = reason])

\* an except clause that goes on with the next point
Fatal_Continue(c, step) == NextPoint([c EXCEPT !.raised = step])

\* lines 821-823: the outermost except clause
Fatal(c, step) == [c EXCEPT !.pc = "done", !.raised = step]

\* a feature enters the timeline of a design that keeps one
Record(m, op, k) ==
    IF m.timeline = <<>> THEN m
    ELSE [m EXCEPT !.timeline = Append(@, [op |-> op, point |-> k])]

\* ------------------------------------------ the edges a cut leaves behind
\* An edge of the body: the fields the searches read, with x its place on the
\* sketch plane, and owner (the point whose bore it bounds), role ("entry":
\* an open end at the surface the tool comes from, "exit": the open far end,
\* "bottom": a closed end, "blend": left by a chamfer or fillet) and inward
\* (the side of the edge the bore lies on).
BoreEdge(k, circle, radius, along, role, inward) ==
    [circle |-> circle, radius |-> radius, dot |-> 100, x |-> PointX(k),
     along |-> along, owner |-> k, role |-> role, inward |-> inward]

\* what the kernel makes of the two ends of a bore: a whole circle or one
\* the surrounding faces interrupt, and the error of the reported radius of
\* the far end
WholeEnds == [startWhole |-> TRUE, endWhole |-> TRUE, endDrift |-> 0]
CutOutcomes ==
    {WholeEnds,
     [startWhole |-> FALSE, endWhole |-> TRUE, endDrift |-> 0],
     [startWhole |-> TRUE, endWhole |-> FALSE, endDrift |-> 0],
     [startWhole |-> FALSE, endWhole |-> TRUE, endDrift |-> 30]}

\* line 780: the cylinder removed from the sketch plane over distance along
\* sign * zAxis; it ends where the material ends or where the extent ends
CutEdges(k, shape, sign, distance, o) ==
    LET ahead == IF sign = 1 THEN shape.up ELSE shape.down
        behind == IF sign = 1 THEN shape.down ELSE shape.up
        reach == Min(distance, ahead)
    IN <<BoreEdge(k, o.startWhole, diameter \div 2, 0,
                  IF behind = 0 THEN "entry" ELSE "bottom", sign),
         BoreEdge(k, o.endWhole, diameter \div 2 + o.endDrift, sign * reach,
                  IF distance < ahead THEN "bottom" ELSE "exit", -sign)>>

\* targetBody.edges as the searches of point k read them
EdgesFrom(k, edges) ==
    [i \in 1..Len(edges) |->
        Edge(edges[i].circle, edges[i].radius, edges[i].dot,
             Abs(edges[i].x - PointX(k)), edges[i].along)]

\* an equal-distance chamfer or a fillet of the given size on edge i: the
\* edge gives way to one on the wall of the bore and one on the face
Blend(edges, i, size) ==
    LET e == edges[i]
        wall == [e EXCEPT !.along = @ + e.inward * size, !.role = "blend"]
        face == [e EXCEPT !.radius = IF e.role = "bottom" THEN @ - size
                                     ELSE @ + size,
                          !.role = "blend"]
    IN SubSeq(edges, 1, i - 1) \o SubSeq(edges, i + 1, Len(edges))
         \o <<wall, face>>

\* a missing chamfer edge ends the work on the point
AfterChamfer_NeedsEdge(c, chamferEdge) ==
    IF c.includeChamfer /\ chamferEdge = 0
    THEN FailPoint(c, "no chamfer edge")
    ELSE [c EXCEPT !.pc = "bottom"]

\* lines 784-792: whatever the chamfer step did, the bottom step is next
AfterChamfer(c, chamferEdge) == [c EXCEPT !.pc = "bottom"]

\* line 804, when the group would reach to the marker itself
endIndex_AtMarker(timeline) == Len(timeline)

\* line 804: timeline.markerPosition - 1, the marker standing at the end
endIndex(timeline) == Len(timeline) - 1

\* a report that is shown only when the success message is asked for
ReportMessages_OnlyIfAsked(c, shown) ==
    IF c.showMessage
    THEN Append(shown, [text |-> "Successfully created",
                        successCount |-> c.successCount, failedCount |-> 0])
    ELSE shown

\* lines 816-819
ReportMessages(c, shown) ==
    IF c.failedCount > 0
    THEN Append(shown, [text |-> "Created, failed",
                        successCount |-> c.successCount,
                        failedCount |-> c.failedCount])
    ELSE IF c.showMessage
    THEN Append(shown, [text |-> "Successfully created",
                        successCount |-> c.successCount, failedCount |-> 0])
    ELSE shown

Init ==
    /\ SideIdle
    /\ \E n \in 1..MaxPoints, blind \in BOOLEAN, chamfer \in BOOLEAN,
          bottom \in BOOLEAN, show \in BOOLEAN :
          cmd = CmdStart(n, blind, chamfer, bottom, show)
    /\ \E t \in {<<>>, BaseTimeline} : model = [ModelEmpty EXCEPT !.timeline = t]
    /\ messages = <<>>
    /\ plane = <<>> /\ fp = FPEntry
    /\ body = NoBody /\ raiseAt = 0 /\ dir = DirEntry

\* a bottom radius that follows the checkbox alone
IncludeBottomRadius_AsChecked(value, isBlindHole) == value

\* line 699: includeBottomRadius = addBottomRadius.value and isBlindHole
IncludeBottomRadius(value, isBlindHole) == value /\ isBlindHole

\* lines 674-725: read the inputs, includeBottomRadius, the counters, the
\* start of the timeline group
ExecStart ==
    /\ UNCHANGED sideVars
    /\ cmd.pc = "start"
    /\ cmd' = [cmd EXCEPT !.pc = "place", !.point_idx = 1,
                          !.includeChamfer = cmd.addChamfer,
                          !.includeBottomRadius =
                              IncludeBottomRadius(cmd.addBottomRadius,
                                                  cmd.isBlindHole),
                          !.startIndex = IF Len(model.timeline) > 0
                                         THEN Len(model.timeline) ELSE -1]
    /\ UNCHANGED <<model, messages, profileVars, dirVars>>

\* lines 727-740: the circle of the next point and its constraint
PlaceCircle ==
    /\ UNCHANGED sideVars
    /\ cmd.pc = "place"
    /\ cmd.point_idx <= cmd.nPoints
    /\ model' = [model EXCEPT !.circles = @ \cup {cmd.point_idx}]
    /\ cmd' = [cmd EXCEPT !.pc = "profile"]
    /\ UNCHANGED <<messages, profileVars, dirVars>>

\* lines 742-750; raises: a kernel call of the resolver raises
ResolveProfile ==
    /\ UNCHANGED sideVars
    /\ cmd.pc = "profile"
    /\ \E pl \in OrchPlanes, raises \in BOOLEAN :
         LET res == findProfileForCircle(pl)
         IN IF raises
            THEN /\ cmd' = Fatal(cmd, "profile")
                 /\ model' = model
                 /\ messages' = Append(messages, Msg("Failed"))
                 /\ plane' = pl /\ fp' = fp
            ELSE /\ messages' = messages
                 /\ IF res = None
                    THEN /\ cmd' = FailPoint(cmd, "no profile")
                         /\ model' = OnPointFailed(model, cmd.point_idx)
                         /\ plane' = <<>> /\ fp' = FPEntry
                    ELSE /\ cmd' = [cmd EXCEPT !.pc = "direction",
                                               !.extent.profile = res]
                         /\ model' = model
                         /\ plane' = pl /\ fp' = RunSearch(FPStart(pl))
    /\ UNCHANGED dirVars

\* lines 752-761
ResolveDirection ==
    /\ UNCHANGED sideVars
    /\ cmd.pc = "direction"
    /\ \E shape \in OrchShapes, ra \in OrchRaiseOffsets :
         LET d == findExtrudeDirectionFromSketch(ShapeBody(shape), ra)
         IN /\ messages' =
                 IF d.messageBox
                 THEN Append(messages,
                             Msg("Error in findExtrudeDirectionFromSketch"))
                 ELSE messages
            /\ IF d.result = "None"
               THEN /\ cmd' = FailPoint(cmd, "no direction")
                    /\ model' = OnPointFailed(model, cmd.point_idx)
                    /\ plane' = <<>> /\ fp' = FPEntry
                    /\ body' = NoBody /\ raiseAt' = 0 /\ dir' = DirEntry
               ELSE /\ cmd' = [cmd EXCEPT !.pc = "cut", !.shape = shape,
                                          !.extent.direction = d.result]
                    /\ model' = model
                    /\ body' = ShapeBody(shape) /\ raiseAt' = ra /\ dir' = d
                    /\ UNCHANGED profileVars

\* a march that goes along zAxis whatever the direction
multiplier_AlwaysPositive(direction) == 1

\* lines 1186-1189 of findDistanceThroughBody, on the direction of line 772
multiplier(direction) == IF direction = "Positive" THEN 1 ELSE -1

\* lines 763-782: the extent of the cut and the cut; tdRaises: a kernel call
\* of findDistanceThroughBody raises, addRaises: extrudes.add raises
Cut ==
    /\ UNCHANGED sideVars
    /\ cmd.pc = "cut"
    /\ \E tdRaises \in BOOLEAN :
         LET sign == IF cmd.extent.direction = "Positive" THEN 1 ELSE -1
             through == IF cmd.isBlindHole
                        THEN [distance |-> 0, messageBox |-> FALSE]
                        ELSE findDistanceThroughBody(
                                 ShapeMarch(cmd.shape,
                                            multiplier(cmd.extent.direction)),
                                 tdRaises)
             distance == IF cmd.isBlindHole
                         THEN holeDepth(insertLen, blind_hole_extra_depth)
                         ELSE through.distance
             shown == IF through.messageBox
                      THEN Append(messages,
                                  Msg("Error in findDistanceThroughBody"))
                      ELSE messages
         IN /\ (cmd.isBlindHole => ~tdRaises)
            /\ \E addRaises \in BOOLEAN, o \in CutOutcomes :
                 /\ (tdRaises \/ addRaises \/ cmd.shape.up # 0 => o = WholeEnds)
                 /\ IF addRaises
                    THEN /\ cmd' = Fatal([cmd EXCEPT
                                            !.extent.distance = distance],
                                         "cut")
                         /\ model' = model
                         /\ messages' = Append(shown, Msg("Failed"))
                    ELSE /\ cmd' = [cmd EXCEPT !.pc = "chamfer",
                                               !.extent.distance = distance]
                         /\ model' =
                              Record([model EXCEPT
                                        !.extrudes = @ \cup {cmd.point_idx},
                                        !.edges = @ \o
                                            CutEdges(cmd.point_idx, cmd.shape,
                                                     sign, distance, o)],
                                     "extrude", cmd.point_idx)
                         /\ messages' = shown
    /\ UNCHANGED <<profileVars, dirVars>>

\* lines 784-790: the chamfer, when selected, on the edge that is found
Chamfer ==
    /\ UNCHANGED sideVars
    /\ cmd.pc = "chamfer"
    /\ LET chamferEdge == IF cmd.includeChamfer
                          THEN findChamferEdge(EdgesFrom(cmd.point_idx,
                                                         model.edges))
                          ELSE 0
       IN /\ model' =
               IF chamferEdge # 0
               THEN Record([model EXCEPT
                              !.chamfers = @ \cup
                                  {[point |-> cmd.point_idx,
                                    edge |-> model.edges[chamferEdge]]},
                              !.edges = Blend(@, chamferEdge, chamfer_size)],
                           "chamfer", cmd.point_idx)
               ELSE model
          /\ cmd' = AfterChamfer(cmd, chamferEdge)
    /\ UNCHANGED <<messages, profileVars, dirVars>>

\* lines 792-800: the bottom fillet, when selected, then the point is
\* counted; addFails: fillets.add raises or returns None
BottomRadius ==
    /\ UNCHANGED sideVars
    /\ cmd.pc = "bottom"
    /\ \E addFails \in BOOLEAN :
         LET found == IF cmd.includeBottomRadius
                      THEN bottomEdge(EdgesFrom(cmd.point_idx, model.edges))
                      ELSE 0
         IN /\ (addFails => found # 0)
            /\ model' =
                 IF found # 0 /\ ~addFails
                 THEN Record([model EXCEPT
                                !.fillets = @ \cup
                                    {[point |-> cmd.point_idx,
                                      edge |-> model.edges[found]]},
                                !.edges = Blend(@, found, bottom_radius_size)],
                             "fillet", cmd.point_idx)
                 ELSE model
    /\ cmd' = NextPoint([cmd EXCEPT !.successCount = @ + 1,
                                    !.outcome[cmd.point_idx] = "done"])
    /\ plane' = <<>> /\ fp' = FPEntry
    /\ body' = NoBody /\ raiseAt' = 0 /\ dir' = DirEntry
    /\ UNCHANGED messages

\* lines 802-819: the timeline group and the report; addFails:
\* timelineGroups.add raises
Report ==
    /\ UNCHANGED sideVars
    /\ cmd.pc = "place"
    /\ cmd.point_idx > cmd.nPoints
    /\ \E addFails \in BOOLEAN :
         LET tries == cmd.successCount > 0 /\ cmd.startIndex >= 0
                        /\ endIndex(model.timeline) >= cmd.startIndex
         IN /\ (addFails => tries)
            /\ model' =
                 IF tries /\ ~addFails
                 THEN [model EXCEPT !.groups =
                         Append(@, [startIndex |-> cmd.startIndex,
                                    endIndex |-> endIndex(model.timeline),
                                    count |-> cmd.successCount,
                                    insertName |-> insertName])]
                 ELSE model
            /\ cmd' = [cmd EXCEPT !.pc = "done", !.groupError = addFails]
    /\ messages' = ReportMessages(cmd, messages)
    /\ UNCHANGED <<profileVars, dirVars>>

Next ==
    \/ ExecStart
    \/ PlaceCircle
    \/ ResolveProfile
    \/ ResolveDirection
    \/ Cut
    \/ Chamfer
    \/ BottomRadius
    \/ Report

Spec == Init /\ [][Next]_vars

\* ------------------------------------------ specification of the resolver
InitProfile ==
    /\ SideIdle
    /\ plane \in Planes /\ fp = FPEntry
    /\ body = NoBody /\ raiseAt = 0 /\ dir = DirEntry
    /\ cmd = CmdIdle /\ model = ModelEmpty /\ messages = <<>>

ProfileStart ==
    /\ UNCHANGED sideVars
    /\ fp.pc = "entry"
    /\ fp' = FPStart(plane)
    /\ UNCHANGED <<plane, dirVars, orchVars>>

ProfileEval ==
    /\ UNCHANGED sideVars
    /\ fp.pc = "search"
    /\ fp' = FPEval(fp)
    /\ UNCHANGED <<plane, dirVars, orchVars>>

NextProfile == ProfileStart \/ ProfileEval

SpecProfile == InitProfile /\ [][NextProfile]_vars

\* ------------------------------- specification of direction inference
InitDirection ==
    /\ SideIdle
    /\ body \in [Offsets -> Containment]
    /\ raiseAt \in RaiseOffsets
    /\ dir = DirEntry
    /\ plane = <<>> /\ fp = FPEntry
    /\ cmd = CmdIdle /\ model = ModelEmpty /\ messages = <<>>

DirectionInfer ==
    /\ UNCHANGED sideVars
    /\ dir.pc = "entry"
    /\ dir' = findExtrudeDirectionFromSketch(body, raiseAt)
    /\ UNCHANGED <<body, raiseAt, profileVars, orchVars>>

NextDirection == DirectionInfer

SpecDirection == InitDirection /\ [][NextDirection]_vars

\* ------------------------------ specification of the through-bore distance
InitThrough ==
    /\ axis \in [body : AxisBodies, raiseAt : TDRaiseAt]
    /\ td = TDEntry /\ el = ELEntry
    /\ ini = NoIni /\ conf = ConfEntry /\ dlg = DlgEntry
    /\ plane = <<>> /\ fp = FPEntry
    /\ body = NoBody /\ raiseAt = 0 /\ dir = DirEntry
    /\ cmd = CmdIdle /\ model = ModelEmpty /\ messages = <<>>

ThroughStart ==
    /\ td.pc = "entry"
    /\ td' = TDStart(td)
    /\ UNCHANGED <<axis, el, configVars, profileVars, dirVars, orchVars>>

\* one pass of the loop body: the query of sample i and what follows from it
ThroughStep ==
    /\ td.pc = "loop"
    /\ td' = IF axis.raiseAt = td.i THEN TDRaise(td)
             ELSE TDStep(td, AxisAt(axis.body, td.i))
    /\ UNCHANGED <<axis, el, configVars, profileVars, dirVars, orchVars>>

ThroughReturn ==
    /\ td.pc = "after"
    /\ td' = TDReturn(td)
    /\ UNCHANGED <<axis, el, configVars, profileVars, dirVars, orchVars>>

NextThrough == ThroughStart \/ ThroughStep \/ ThroughReturn

SpecThrough == InitThrough /\ [][NextThrough]_vars

\* ------------------------------------- specification of the edge searches
InitEdges ==
    /\ el \in [edges : EdgeLists, entry : {-1}, bottom : {-1}]
    /\ axis = NoAxis /\ td = TDEntry
    /\ ini = NoIni /\ conf = ConfEntry /\ dlg = DlgEntry
    /\ plane = <<>> /\ fp = FPEntry
    /\ body = NoBody /\ raiseAt = 0 /\ dir = DirEntry
    /\ cmd = CmdIdle /\ model = ModelEmpty /\ messages = <<>>

LocateEntryEdge ==
    /\ el.entry = -1
    /\ el' = [el EXCEPT !.entry = findChamferEdge(el.edges)]
    /\ UNCHANGED <<tdVars, configVars, profileVars, dirVars, orchVars>>

LocateBottomEdge ==
    /\ el.bottom = -1
    /\ el' = [el EXCEPT !.bottom = bottomEdge(el.edges)]
    /\ UNCHANGED <<tdVars, configVars, profileVars, dirVars, orchVars>>

NextEdges == LocateEntryEdge \/ LocateBottomEdge

SpecEdges == InitEdges /\ [][NextEdges]_vars

\* -------------------------------------------- specification of load_config
InitConfig ==
    /\ ini \in IniFiles
    /\ conf = ConfEntry /\ dlg = DlgEntry
    /\ axis = NoAxis /\ td = TDEntry /\ el = ELEntry
    /\ plane = <<>> /\ fp = FPEntry
    /\ body = NoBody /\ raiseAt = 0 /\ dir = DirEntry
    /\ cmd = CmdIdle /\ model = ModelEmpty /\ messages = <<>>

LoadConfig ==
    /\ conf.pc = "entry"
    /\ conf' = load_config(conf, ini)
    /\ UNCHANGED <<ini, dlg, tdVars, el, profileVars, dirVars, orchVars>>

NextConfig == LoadConfig

SpecConfig == InitConfig /\ [][NextConfig]_vars

\* ------------------------------- specification of the dialog between runs
\* config.ini when the add-in starts: unreadable, or with or without a
\* [Settings] section (no sizes in it), the flags and the [Inserts] as edited
InitDialog ==
    /\ \E ins \in DialogInserts, readable \in BOOLEAN, st \in BOOLEAN :
         /\ (~readable => ~st /\ ~ins.hasInserts)
         /\ ini = [IniFile(readable, CHOOSE x \in NoSettings : TRUE, ins)
                     EXCEPT !.hasSettings = st]
    /\ \E f \in FlagFiles :
         /\ (~ini.hasSettings => f = NoFlags)
         /\ dlg = [DlgEntry EXCEPT !.file = f]
    /\ conf = ConfEntry
    /\ axis = NoAxis /\ td = TDEntry /\ el = ELEntry
    /\ plane = <<>> /\ fp = FPEntry
    /\ body = NoBody /\ raiseAt = 0 /\ dir = DirEntry
    /\ cmd = CmdIdle /\ model = ModelEmpty /\ messages = <<>>

\* lines 421-503 of CommandCreatedHandler.notify: load_config, the inputs
CommandCreated ==
    /\ dlg.pc = "closed"
    /\ conf' = load_config(conf, ini)
    /\ LET CONFIG == LoadFlags(dlg.CONFIG, ini, dlg.file)
       IN dlg' = [dlg EXCEPT !.pc = "open", !.CONFIG = CONFIG,
                             !.dialog = CreateDialog(CONFIG,
                                                     conf'.INSERT_SPECS)]
    /\ UNCHANGED <<ini, tdVars, el, profileVars, dirVars, orchVars>>

\* lines 686-704 of CommandExecuteHandler.notify, with the inputs as the user
\* left them; wInsert, wBoxes: the write of save_last_selected_insert, of
\* save_checkbox_states reached the file (each gives up silently otherwise)
CommandExecute ==
    /\ dlg.pc = "open"
    /\ \E name \in Names(conf.INSERT_SPECS) \cup {dlg.dialog.insertSize},
          blind \in BOOLEAN, chamfer \in BOOLEAN, bottom \in BOOLEAN,
          show \in BOOLEAN, wInsert \in BOOLEAN, wBoxes \in BOOLEAN :
         LET includeBottomRadius == IncludeBottomRadius(bottom, blind)
             afterInsert == IF wInsert THEN SaveInsert(dlg.file, name)
                            ELSE dlg.file
             afterBoxes == IF wBoxes
                           THEN SaveCheckboxes(afterInsert, chamfer,
                                               includeBottomRadius, show,
                                               blind)
                           ELSE afterInsert
         IN /\ (wInsert \/ wBoxes) => (ini.readable /\ name # NoOption)
            /\ dlg' = [dlg EXCEPT
                         !.pc = "closed", !.file = afterBoxes,
                         !.used = [insertSize |-> name, isBlindHole |-> blind,
                                   addChamfer |-> chamfer,
                                   addBottomRadius |-> bottom,
                                   showSuccessMessage |-> show],
                         !.saved = [insert |-> wInsert, checkboxes |-> wBoxes],
                         !.raised = name \notin Names(conf.INSERT_SPECS)]
            /\ ini' = IF wInsert \/ wBoxes
                      THEN [ini EXCEPT !.hasSettings = TRUE] ELSE ini
    /\ UNCHANGED <<conf, tdVars, el, profileVars, dirVars, orchVars>>

NextDialog == CommandCreated \/ CommandExecute

SpecDialog == InitDialog /\ [][NextDialog]_vars

\* -------------------------------------------- claims on the orchestration
\* C1: a point whose profile was not found or whose direction was not
\* determined has no circle in the sketch, at every later moment of the
\* batch and so before the next point is processed.
C1_FailedPointCircleDeleted ==
    \A k \in 1..MaxPoints :
        cmd.outcome[k] \in {"no profile", "no direction"}
          => k \notin model.circles

\* a batch that mixes a failed point and a succeeded one has ended
C1_Witness ==
    /\ cmd.pc = "done"
    /\ cmd.outcome[1] = "no direction"
    /\ cmd.outcome[2] = "done"
    /\ model.circles = {2}
    /\ model.extrudes = {2}

\* C2: when command execution has ended, every circle that is in the sketch
\* has a cut feature made from it.
C2_NoOrphanCircle ==
    cmd.pc = "done" =>
        \A k \in model.circles : k \in model.extrudes

\* ------------------------------------------------ claims on the resolver
RECURSIVE PlaneArea(_, _)
PlaneArea(profs, i) ==
    IF i > Len(profs) THEN 0 ELSE plane[profs[i]].area + PlaneArea(profs, i + 1)

\* area difference of a set of profiles of the sketch, from the sketch itself
PlaneDiff(profs) == Abs(PlaneArea(profs, 1) - target_area)

ProfsOf(cands, combo) == [i \in 1..Len(combo) |-> cands[combo[i]].prof]
Range(f) == {f[i] : i \in DOMAIN f}

RECURSIVE Pow2(_)
Pow2(n) == IF n = 0 THEN 1 ELSE 2 * Pow2(n - 1)

\* C3: once the search has ended, the best combination found is returned if
\* its summed area differs from the circle's area by at most 3% of it (3%
\* itself included), and None is returned if the difference is above 3%.
C3_ToleranceBoundary ==
    (fp.pc = "done" /\ fp.candidates # <<>>) =>
        /\ PlaneDiff(fp.best_profiles) * 100 <= target_area * 3
              => (fp.result # None /\ fp.result.profs = fp.best_profiles)
        /\ PlaneDiff(fp.best_profiles) * 100 > target_area * 3
              => fp.result = None

\* a best combination whose difference is exactly 3% has been returned
C3_Witness ==
    /\ fp.pc = "done"
    /\ fp.candidates # <<>>
    /\ PlaneDiff(fp.best_profiles) * 100 = target_area * 3
    /\ fp.result # None

\* C4: the step that evaluates a combination whose area difference is at
\* most 0.003% of the target ends the search and returns that combination,
\* so nothing is evaluated after it.
C4_EarlyExit ==
    [][(fp.pc = "search"
          /\ PlaneDiff(ProfsOf(fp.candidates, fp.combo))
                <= (target_area * 3) \div 100000)
        => /\ fp'.pc = "done"
           /\ fp'.result # None
           /\ fp'.result.profs = ProfsOf(fp.candidates, fp.combo)
           /\ fp'.evaluated = fp.evaluated + 1]_vars

\* a near-perfect match ended a search that had larger sizes left to try
C4_Witness ==
    /\ fp.pc = "done"
    /\ fp.result # None
    /\ PlaneDiff(fp.result.profs) <= (target_area * 3) \div 100000
    /\ Len(fp.result.profs) < max_profiles(fp.candidates)

\* C5: a result of one region is returned as the region itself and a result
\* of two or more regions as a collection; a sketch whose only region has the
\* circle's area yields that region, with area difference zero.
C5_SingleOrCollection ==
    fp.pc = "done" =>
        /\ fp.result # None =>
              /\ fp.result.kind = "Profile" <=> Len(fp.result.profs) = 1
              /\ fp.result.kind = "ObjectCollection" <=> Len(fp.result.profs) >= 2
        /\ (Len(plane) = 1 /\ plane[1].area = target_area /\ IsCandidate(plane[1]))
              => /\ fp.result = [kind |-> "Profile", profs |-> <<1>>]
                 /\ PlaneDiff(fp.result.profs) = 0

\* the sketch holds exactly the disc and the resolver returned it
C5_Witness ==
    /\ fp.pc = "done"
    /\ Len(plane) = 1
    /\ plane[1].area = target_area
    /\ fp.result.kind = "Profile"

\* C6 as stated: with more than 15 candidates, no candidate ranked 16th or
\* lower is in an evaluated or returned combination, and at most 2^15
\* combinations are evaluated.
C6_OnlyFifteenLargest ==
    Len(fp.candidates) > MaxCombo =>
        /\ \A i \in DOMAIN fp.combo : fp.combo[i] <= MaxCombo
        /\ fp.evaluated <= Pow2(MaxCombo)

\* C6 as amended: with more than 15 candidates, every evaluated and every
\* returned combination has at most 15 regions, drawn from all candidates,
\* and fewer than 2^n combinations of the n candidates are evaluated.
C6_AtMostFifteenPerCombination ==
    Len(fp.candidates) > MaxCombo =>
        /\ Len(fp.combo) <= MaxCombo
        /\ Len(fp.best_profiles) <= MaxCombo
        /\ Len(fp.result.profs) <= MaxCombo
        /\ fp.evaluated < Pow2(Len(fp.candidates))

\* a combination of 15 regions that holds the 16th candidate is evaluated
C6_Witness ==
    /\ fp.pc = "search"
    /\ Len(fp.candidates) > MaxCombo
    /\ Len(fp.combo) = MaxCombo
    /\ \E i \in DOMAIN fp.combo : fp.combo[i] > MaxCombo

\* the regions of the sketch that are fragments of the circle's disc tile it:
\* their areas sum to the circle's area and each lies within the disc
Tiled(profiles) ==
    \A i \in {j \in DOMAIN profiles : profiles[j].inDisc} :
        /\ profiles[i].minx >= circle_center3d.x - circle_radius
        /\ profiles[i].maxx <= circle_center3d.x + circle_radius
        /\ profiles[i].miny >= circle_center3d.y - circle_radius
        /\ profiles[i].maxy <= circle_center3d.y + circle_radius
        /\ ~CentroidOutside(profiles[i])

RECURSIVE FragmentAreaFrom(_, _)
FragmentAreaFrom(profiles, i) ==
    IF i > Len(profiles) THEN 0
    ELSE (IF profiles[i].inDisc THEN profiles[i].area ELSE 0)
           + FragmentAreaFrom(profiles, i + 1)

FragmentArea(profiles) == FragmentAreaFrom(profiles, 1)

\* C7: on a sketch whose fragments tile the disc, a result that is not None
\* is exactly the set of the fragments of the disc.
C7_ExactlyTheFragments ==
    (fp.pc = "done" /\ Tiled(plane) /\ FragmentArea(plane) = target_area
        /\ fp.result # None)
      => Range(fp.result.profs) = {i \in DOMAIN plane : plane[i].inDisc}

\* --------------------------------------- claims on direction inference
SampleDistances == {100, 500, 1000, 2000}
SideEnters(sign) ==
    \E d \in SampleDistances : body[sign * d] \in {"PointInside", "PointOn"}

\* C8: a side enters the body iff one of its four samples is on the surface
\* or inside; only the positive side entering gives Positive, only the
\* negative side Negative, and eight samples outside give None.
C8_DecisionTable ==
    (dir.pc = "done" /\ ~dir.raised) =>
        /\ dir.positiveIsInside <=> SideEnters(1)
        /\ dir.negativeIsInside <=> SideEnters(-1)
        /\ (SideEnters(1) /\ ~SideEnters(-1)) => dir.result = "Positive"
        /\ (SideEnters(-1) /\ ~SideEnters(1)) => dir.result = "Negative"
        /\ (\A d \in SampleDistances :
               body[d] = "PointOutside" /\ body[-d] = "PointOutside")
             => dir.result = "None"

\* the negative side enters only by an on-surface sample at 2 mm
C8_Witness ==
    /\ dir.pc = "done"
    /\ ~dir.raised
    /\ body[-2000] = "PointOn"
    /\ \A d \in {100, 500, 1000} : body[-d] = "PointOutside"
    /\ ~SideEnters(1)
    /\ dir.result = "Negative"

\* C9: when both sides enter, the 0.01 mm probes decide: exactly one probe
\* outside gives the direction away from it, both or neither gives Positive;
\* the result is never None.
C9_SecondaryProbe ==
    (dir.pc = "done" /\ ~dir.raised /\ SideEnters(1) /\ SideEnters(-1)) =>
        /\ dir.probed
        /\ (body[10] = "PointOutside" /\ body[-10] # "PointOutside")
             => dir.result = "Negative"
        /\ (body[-10] = "PointOutside" /\ body[10] # "PointOutside")
             => dir.result = "Positive"
        /\ (body[10] = "PointOutside" <=> body[-10] = "PointOutside")
             => dir.result = "Positive"
        /\ dir.result # "None"

\* both sides enter and only the positive probe is outside
C9_Witness ==
    /\ dir.pc = "done"
    /\ ~dir.raised
    /\ SideEnters(1) /\ SideEnters(-1)
    /\ body[10] = "PointOutside" /\ body[-10] = "PointInside"
    /\ dir.result = "Negative"

\* what the kernel answers for an anchor on the outer face of a convex solid
\* that is t micrometres thick below the anchor, the normal pointing outward
ConvexBody(t) ==
    [o \in Offsets |->
        IF o > 0 THEN "PointOutside"
        ELSE IF -o < t THEN "PointInside"
        ELSE IF -o = t THEN "PointOn"
        ELSE "PointOutside"]

Thicknesses == {5, 10, 50, 100, 300, 500, 1200, 2000, 5000}

\* C10 as stated: on the outer face of a convex solid of any thickness the
\* result is the direction into the solid.
C10_IntoSolidAnyThickness ==
    (dir.pc = "done" /\ ~dir.raised
        /\ \E t \in Thicknesses : body = ConvexBody(t))
      => dir.result = "Negative"

\* C10 as amended: on the outer face of a convex solid at least 0.1 mm thick
\* the result is the direction into the solid, and a sample on that side is
\* contained in the body.
C10_IntoSolid ==
    (dir.pc = "done" /\ ~dir.raised
        /\ \E t \in Thicknesses : t >= 100 /\ body = ConvexBody(t))
      => /\ dir.result = "Negative"
         /\ SideEnters(-1)

\* a solid exactly 0.1 mm thick: the first sample is on its far face
C10_Witness ==
    /\ dir.pc = "done"
    /\ ~dir.raised
    /\ body = ConvexBody(100)
    /\ dir.result = "Negative"

\* ------------------------------------------ claims on the through distance
\* the loop, step by step, returns what findDistanceThroughBody returns
Through_StepwiseAgrees ==
    td.pc = "done" =>
        td.result = findDistanceThroughBody(AxisMarch(axis.body),
                                            td.messageBox).distance

IsPlate(b) == b.kind = "solid" /\ Len(b.segs) = 1 /\ b.segs[1][1] = 0
Thickness(b) == b.segs[1][2]

\* C11: for a plate of thickness T measured from the anchor on its entry
\* face, the returned distance is at least T and below T + 1 mm + 2 mm, for
\* every T, whole multiples of the step and T of at most one step included.
C11_WithinStepAndMargin ==
    (td.pc = "done" /\ ~td.messageBox /\ IsPlate(axis.body)) =>
        /\ Thickness(axis.body) <= td.result
        /\ td.result < Thickness(axis.body) + stepSize + exitMargin

\* every material interval and every gap of the solid is at least one step
\* long
FeaturesAtLeastStep(b) ==
    /\ \A k \in 1..Len(b.segs) : b.segs[k][2] - b.segs[k][1] >= stepSize
    /\ \A k \in 1..Len(b.segs) - 1 : b.segs[k + 1][1] - b.segs[k][2] >= stepSize

LastMaterial(b) == b.segs[Len(b.segs)][2]

\* C12: in through-hole mode the distance handed to the cut is beyond the
\* last material of the body on the bore axis, for every body whose features
\* along the axis are at least 1 mm thick.
C12_PastLastMaterial ==
    (/\ td.pc = "done" /\ ~td.messageBox
     /\ axis.body.kind = "solid" /\ Len(axis.body.segs) > 0
     /\ FeaturesAtLeastStep(axis.body))
      => td.result > LastMaterial(axis.body)

\* ---------------------------------------------- claims on the edge searches
EntryPassing == {i \in 1..Len(el.edges) : PassesEntryFilters(el.edges[i])}
BottomPassing == {i \in 1..Len(el.edges) : PassesBottomFilters(el.edges[i])}

\* C13: of the edges that pass the filters of a search, the entry search
\* returns one at the least axial distance and the bottom search selects one
\* at the greatest; of two at distances d1 < d2 the entry search returns the
\* one at d1 and the bottom search the one at d2.
C13_ClosestAndFurthest ==
    /\ el.entry # -1 =>
         IF EntryPassing = {} THEN el.entry = 0
         ELSE /\ el.entry \in EntryPassing
              /\ \A j \in EntryPassing :
                   Distance(el.edges[el.entry]) <= Distance(el.edges[j])
    /\ el.bottom # -1 =>
         IF BottomPassing = {} THEN el.bottom = 0
         ELSE /\ el.bottom \in BottomPassing
              /\ \A j \in BottomPassing :
                   Distance(el.edges[el.bottom]) >= Distance(el.edges[j])

\* both searches have run on a body with the mouth and the floor of a bore,
\* the floor listed first: each picked its own end
C13_Witness ==
    /\ Len(el.edges) >= 2
    /\ el.edges[1] = Edge(TRUE, 2200, 100, 0, 6700)
    /\ el.edges[2] = Edge(TRUE, 2200, 100, 0, 0)
    /\ el.entry = 2
    /\ el.bottom = 1

\* ------------------------------------- claims on the steps after the cut
\* C14: on a blind hole that was cut, the chamfer is on one edge only, the
\* entry edge of the bore of that point, at the sketch plane, and never on
\* the closed end of the bore.
C14_ChamferOnEntryEdge ==
    cmd.isBlindHole =>
        \A c \in model.chamfers :
            /\ c.edge.role = "entry"
            /\ c.edge.owner = c.point
            /\ c.edge.along = 0
            /\ \A d \in model.chamfers : d.point = c.point => d = c

Last(seq) == seq[Len(seq)]

\* C15: after every iteration of the loop successCount + failedCount is the
\* number of points gone through; at normal completion it is the number of
\* selected points, and if any point failed the last message states both
\* counts, whether or not the success message is asked for.
C15_CountsAndReport ==
    /\ cmd.pc \notin {"idle", "start"} =>
         /\ cmd.successCount + cmd.failedCount = cmd.point_idx - 1
         /\ cmd.successCount =
              Cardinality({k \in 1..MaxPoints : cmd.outcome[k] = "done"})
         /\ cmd.failedCount =
              Cardinality({k \in 1..MaxPoints :
                             cmd.outcome[k] \in {"no profile", "no direction"}})
    /\ (cmd.pc = "done" /\ cmd.raised = "") =>
         /\ cmd.successCount + cmd.failedCount = cmd.nPoints
         /\ cmd.failedCount > 0 =>
              /\ messages # <<>>
              /\ Last(messages) = [text |-> "Created, failed",
                                   successCount |-> cmd.successCount,
                                   failedCount |-> cmd.failedCount]

\* a batch of a failed and a succeeded point has ended with the success
\* message switched off
C15_Witness ==
    /\ cmd.pc = "done" /\ cmd.raised = ""
    /\ ~cmd.showMessage
    /\ cmd.successCount = 1 /\ cmd.failedCount = 1
    /\ Last(messages).text = "Created, failed"

\* C16: when the cut of point k raises, the run ends there: no later step is
\* taken, a message box with the diagnostic is shown, and the model keeps
\* every circle, cut, chamfer and fillet it held (nothing is rolled back).
C16_FatalAbortsKeepsFeatures ==
    [][/\ cmd.raised # "cut"
       /\ cmd'.raised = "cut" =>
            /\ cmd.pc = "cut" /\ cmd'.pc = "done"
            /\ cmd'.point_idx = cmd.point_idx
            /\ cmd'.outcome = cmd.outcome
            /\ cmd'.successCount = cmd.successCount
            /\ model' = model
            /\ Last(messages').text = "Failed"]_vars

\* the cut of the second point raised after the first point got its cut and
\* its chamfer, both still in the model
C16_Witness ==
    /\ cmd.raised = "cut" /\ cmd.point_idx = 2
    /\ cmd.outcome[1] = "done" /\ cmd.outcome[2] = "pending"
    /\ 1 \in model.extrudes
    /\ \E c \in model.chamfers : c.point = 1
    /\ 2 \notin model.extrudes

\* C17: a point whose profile is not found or whose direction is not
\* determined is counted as failed and the loop goes on with the next point
\* of the selection: no point is left out, none is taken out of order, and a
\* later one can succeed.
C17_FailureDoesNotStopBatch ==
    [][/\ cmd'.point_idx \in {cmd.point_idx, cmd.point_idx + 1}
       /\ cmd'.failedCount # cmd.failedCount =>
            /\ cmd'.failedCount = cmd.failedCount + 1
            /\ cmd'.outcome[cmd.point_idx] \in {"no profile", "no direction"}
            /\ cmd'.pc = "place" /\ cmd'.raised = ""
            /\ cmd'.point_idx = cmd.point_idx + 1
       /\ (cmd'.pc = "done" /\ cmd'.raised = "") =>
            \A k \in 1..cmd.nPoints : cmd.outcome[k] # "pending"]_vars

\* the first point failed for want of a profile, the second one succeeded
C17_Witness ==
    /\ cmd.outcome[1] = "no profile"
    /\ cmd.outcome[2] = "done"
    /\ 2 \in model.extrudes

\* C18: once the cut exists the point is counted as succeeded: the chamfer
\* step is always followed by the bottom step, the bottom step by the count,
\* whether or not their edges are found; a bottom step that adds nothing
\* leaves the chamfer in place.
C18_CosmeticStepsNeverFail ==
    [][/\ cmd.pc = "chamfer" =>
            /\ cmd'.pc = "bottom"
            /\ cmd'.failedCount = cmd.failedCount
       /\ cmd.pc = "bottom" =>
            /\ cmd'.pc = "place" /\ cmd'.raised = ""
            /\ cmd'.point_idx = cmd.point_idx + 1
            /\ cmd'.successCount = cmd.successCount + 1
            /\ cmd'.failedCount = cmd.failedCount
            /\ cmd'.outcome[cmd.point_idx] = "done"
            /\ model'.chamfers = model.chamfers
            /\ model'.extrudes = model.extrudes
            /\ (cmd.includeBottomRadius
                  /\ bottomEdge(EdgesFrom(cmd.point_idx, model.edges)) # 0
                  /\ model'.fillets = model.fillets)
                 => model' = model]_vars

\* a point with chamfer and bottom radius asked for: no chamfer edge was
\* found, the fillet was made, the point counts as succeeded
C18_Witness ==
    \E k \in 1..MaxPoints :
        /\ cmd.includeChamfer /\ cmd.includeBottomRadius
        /\ cmd.outcome[k] = "done"
        /\ \A c \in model.chamfers : c.point # k
        /\ \E f \in model.fillets : f.point = k

\* ------------------------------------------- claims on the timeline group
BatchEntries == {i \in 1..Len(model.timeline) : model.timeline[i].op # "base"}

\* C19: at normal completion with at least one succeeded point there is
\* exactly one group, over all the operations of the batch, named with the
\* success count and the insert name; with no succeeded point there is none.
C19_ExactlyOneGroup ==
    (cmd.pc = "done" /\ cmd.raised = "") =>
        IF cmd.successCount > 0
        THEN /\ Len(model.groups) = 1
             /\ model.groups[1].count = cmd.successCount
             /\ model.groups[1].insertName = insertName
        ELSE model.groups = <<>>

\* C19 as the code has it: there is never more than one group and none when
\* no point succeeded; with at least one succeeded point the group is there
\* when the design keeps a timeline and timelineGroups.add does not raise;
\* the group runs from the first to the last timeline entry the batch made
\* and is named with the success count and the insert name.
C19_OneGroupWhenTimelineAllows ==
    /\ Len(model.groups) <= 1
    /\ cmd.pc # "done" => model.groups = <<>>
    /\ (cmd.pc = "done" /\ cmd.raised = "") =>
         /\ Len(model.groups) = 1 <=>
              (cmd.successCount > 0 /\ model.timeline # <<>> /\ ~cmd.groupError)
         /\ model.groups # <<>> =>
              /\ model.groups[1].count = cmd.successCount
              /\ model.groups[1].insertName = insertName
              /\ BatchEntries =
                   {i + 1 : i \in model.groups[1].startIndex ..
                                    model.groups[1].endIndex}
    /\ cmd.raised # "" => model.groups = <<>>

\* two points succeeded with chamfers in a design with a timeline: one group
\* over the four entries
C19_Witness ==
    /\ cmd.pc = "done" /\ cmd.successCount = 2
    /\ Len(model.groups) = 1
    /\ model.groups[1].endIndex - model.groups[1].startIndex = 3

\* ------------------------------------------------ claims on the settings
Positive(a) == a.kind \in {"num", "inf"} /\ (a.kind = "num" => a.v > 0)
Within(a, lo, hi) == a.kind = "num" /\ lo <= a.v /\ a.v <= hi

\* C20: after load_config, whatever config.ini holds, every insert of the
\* catalog has a hole diameter and a length above zero, and the chamfer
\* size, the extra blind depth and the bottom radius are each in their range
\* (0 < size <= 5 mm, 0 <= depth <= 10 mm, 0 <= radius <= 5 mm).
C20_CatalogAndSettingsValid ==
    conf.pc = "loaded" =>
        /\ \A spec \in conf.INSERT_SPECS :
             Positive(spec.hole_dia) /\ Positive(spec.insert_len)
        /\ Within(conf.CONFIG.chamfer_size, 1, 5000)
        /\ Within(conf.CONFIG.blind_hole_extra_depth, 0, 10000)
        /\ Within(conf.CONFIG.bottom_radius_size, 0, 5000)

\* C21: the depth of a blind cut is the insert length plus the configured
\* extra depth (5.7 mm + 1.0 mm = 6.7 mm) and the bore has the hole diameter
\* of the insert, whatever material the body has along the axis: the extent
\* set on the cut and the end of the bore at the sketch plane show both
C21_BlindDepthAndDiameter ==
    (cmd.isBlindHole /\ cmd.pc = "chamfer") =>
        /\ cmd.extent.distance = insertLen + blind_hole_extra_depth
        /\ cmd.extent.distance = 6700
        /\ \E i \in 1..Len(model.edges) :
             /\ model.edges[i].owner = cmd.point_idx
             /\ model.edges[i].along = 0
             /\ model.edges[i].radius * 2 = holeDia
        /\ \A i \in 1..Len(model.edges) :
             (model.edges[i].owner = cmd.point_idx /\ model.edges[i].along # 0)
                 => Abs(model.edges[i].along)
                       = Min(6700, IF cmd.extent.direction = "Positive"
                                   THEN cmd.shape.up ELSE cmd.shape.down)

\* a blind cut was made where only 3 mm of material lie ahead of the sketch
\* plane, and its extent is 6.7 mm all the same
C21_Witness ==
    /\ cmd.isBlindHole /\ cmd.pc = "chamfer"
    /\ cmd.shape.up = 3000 /\ cmd.extent.direction = "Positive"
    /\ cmd.extent.distance = 6700

TDRank(s) ==
    CASE s.pc = "entry" -> 0
      [] s.pc = "loop" -> s.i
      [] s.pc = "after" -> maxSteps + 1
      [] s.pc = "done" -> maxSteps + 2

C23_OffAxisNeverCandidate ==
    /\ el.entry # -1 =>
         /\ \A i \in EntryPassing : el.edges[i].perp <= 100
         /\ el.entry > 0 => el.edges[el.entry].perp <= 100
    /\ el.bottom # -1 =>
         /\ \A i \in BottomPassing : el.edges[i].perp <= 500
         /\ el.bottom > 0 => el.edges[el.bottom].perp <= 500

\* the two ends of the bore that was just cut blind from the sketch plane:
\* its mouth at the plane and its floor 6.7 mm down, both on the axis
OwnEntry == Edge(TRUE, 2200, 100, 0, 0)
OwnFloor == Edge(TRUE, 2200, 100, 0, 6700)
Edges == {el.edges[i] : i \in 1..Len(el.edges)}

\* C24: whatever other bores the body holds, with the mouth and the floor of
\* the bore just cut among its edges the chamfer search returns that mouth
\* and the bottom search that floor, never an edge of another bore (such as
\* the mouth of a coaxial bore of the same diameter on the opposite face)
C24_OwnEdgesOnly ==
    (OwnEntry \in Edges /\ OwnFloor \in Edges) =>
        /\ el.entry # -1 => el.entry > 0 /\ el.edges[el.entry] = OwnEntry
        /\ el.bottom # -1 => el.bottom > 0 /\ el.edges[el.bottom] = OwnFloor

\* the message boxes that report an exception: the one of the outermost
\* except clause of notify and the ones of the components
Diagnostics ==
    {i \in 1..Len(messages) :
        messages[i].text \in {"Failed",
                              "Error in findExtrudeDirectionFromSketch",
                              "Error in findDistanceThroughBody"}}

\* C25: an exception of a kernel call, at whatever step, is caught by the
\* outermost except clause only: a command shows at most one diagnostic
\* message, that message is the one of the outermost clause and ends the
\* command, and no component has answered an exception with its not-found
\* value or a fallback (a point without direction, the 100 mm distance)
C25_ExceptionsEndAtBoundary ==
    /\ Cardinality(Diagnostics) <= 1
    /\ \A i \in Diagnostics :
         /\ messages[i].text = "Failed"
         /\ cmd.pc = "done" /\ cmd.raised # ""

\* C26: in through-hole mode the bottom fillet is not attempted for any
\* point, whatever the state of its checkbox: the command does not carry the
\* option into its loop, no fillet is on the body and none in the timeline
C26_NoBottomFilletOnThroughHoles ==
    (~cmd.isBlindHole /\ cmd.pc \notin {"idle", "start"}) =>
        /\ ~cmd.includeBottomRadius
        /\ model.fillets = {}
        /\ \A i \in 1..Len(model.timeline) : model.timeline[i].op # "fillet"

\* a through hole was finished with the checkbox ticked, on a body that has
\* an edge the bottom search would have taken, and there is no fillet
C26_Witness ==
    /\ ~cmd.isBlindHole /\ cmd.addBottomRadius
    /\ cmd.successCount >= 1
    /\ bottomEdge(EdgesFrom(1, model.edges)) # 0
    /\ model.fillets = {}

\* the steps of notify that may follow one another
StepOrder ==
    {<<"start", "place">>, <<"place", "profile">>, <<"place", "done">>,
     <<"profile", "direction">>, <<"profile", "place">>, <<"profile", "done">>,
     <<"direction", "cut">>, <<"direction", "place">>,
     <<"cut", "chamfer">>, <<"cut", "done">>,
     <<"chamfer", "bottom">>, <<"bottom", "place">>}

\* C27: for each point the steps come in one order: circle, profile,
\* direction, (through distance and) cut, chamfer, bottom fillet; the cut is
\* made only with a resolved profile and direction; the through distance is
\* searched in the direction the cut is made in; the chamfer step comes
\* before the bottom step; and the loop moves to the next point only from a
\* point that is finished or has failed, every feature a step adds being one
\* of the point in hand
C27_StepOrder ==
    [][LET k == cmd.point_idx
           s == IF cmd.extent.direction = "Positive" THEN 1 ELSE -1
           tdRaised == \E i \in Len(messages) + 1..Len(messages') :
                          messages'[i].text = "Error in findDistanceThroughBody"
       IN /\ cmd'.pc # cmd.pc => <<cmd.pc, cmd'.pc>> \in StepOrder
          /\ cmd'.point_idx # k =>
               \/ cmd.pc = "start" /\ cmd'.point_idx = 1
               \/ /\ cmd'.point_idx = k + 1
                  /\ cmd'.pc = "place"
                  /\ cmd.pc \in {"profile", "direction", "bottom"}
                  /\ cmd'.outcome[k] # "pending"
                  /\ cmd.pc = "bottom" <=> cmd'.outcome[k] = "done"
          /\ model'.circles # model.circles =>
               cmd.pc \in {"place", "profile", "direction"}
          /\ model'.extrudes # model.extrudes =>
               /\ cmd.pc = "cut" /\ model'.extrudes = model.extrudes \cup {k}
               /\ cmd.extent.profile # None
               /\ cmd.extent.direction \in {"Positive", "Negative"}
               /\ k \in model.circles
               /\ \A i \in Len(model.edges) + 1..Len(model'.edges) :
                    model'.edges[i].along * s >= 0
          /\ (cmd.pc = "cut" /\ ~cmd.isBlindHole) =>
               cmd'.extent.distance =
                   findDistanceThroughBody(ShapeMarch(cmd.shape, s),
                                           tdRaised).distance
          /\ model'.chamfers # model.chamfers =>
               /\ cmd.pc = "chamfer" /\ k \in model.extrudes
               /\ \A c \in model'.chamfers \ model.chamfers : c.point = k
          /\ model'.fillets # model.fillets =>
               /\ cmd.pc = "bottom" /\ k \in model.extrudes
               /\ \A f \in model'.fillets \ model.fillets : f.point = k]_vars

\* the second point of a through-hole batch has been cut downwards through
\* the 10 mm plate after the first was cut, chamfered and counted
C27_Witness ==
    /\ ~cmd.isBlindHole /\ cmd.point_idx = 2 /\ cmd.pc = "chamfer"
    /\ cmd.outcome[1] = "done"
    /\ \E c \in model.chamfers : c.point = 1
    /\ cmd.extent.direction = "Negative" /\ cmd.extent.distance = 13000
    /\ model.extrudes = {1, 2}

\* ------------------------------------------------- claims on the dialog
\* C29: what a command persists for the bottom radius is its checkbox and
\* blind hole together: a through-hole command stores False though the box
\* was ticked, and the next dialog opens with the box clear; the chamfer box,
\* the success-message box and the hole type are stored, and come back in
\* the next dialog, as they were selected
C29_PersistedAsExecuted ==
    dlg.saved.checkboxes =>
        /\ dlg.file.bottom_radius_enabled_default
             = str(dlg.used.addBottomRadius /\ dlg.used.isBlindHole)
        /\ dlg.file.chamfer_enabled_default = str(dlg.used.addChamfer)
        /\ dlg.file.show_success_message = str(dlg.used.showSuccessMessage)
        /\ dlg.file.hole_type_blind = str(dlg.used.isBlindHole)
        /\ dlg.pc = "open" =>
             /\ dlg.dialog.addBottomRadius
                  = (dlg.used.addBottomRadius /\ dlg.used.isBlindHole)
             /\ dlg.dialog.addChamfer = dlg.used.addChamfer
             /\ dlg.dialog.showSuccessMessage = dlg.used.showSuccessMessage
             /\ dlg.dialog.isBlindHole = dlg.used.isBlindHole

\* the dialog is open again after a through-hole command with the bottom
\* radius ticked and the chamfer not: through hole, both boxes clear
C29_Witness ==
    /\ dlg.pc = "open" /\ dlg.saved.checkboxes
    /\ dlg.used.addBottomRadius /\ ~dlg.used.isBlindHole
    /\ ~dlg.used.addChamfer
    /\ ~dlg.dialog.addBottomRadius /\ ~dlg.dialog.isBlindHole
    /\ ~dlg.dialog.addChamfer

\* C30: after every load_config the catalog is not empty (the defaults stand
\* in when the file has no valid insert or cannot be read), the dialog opens
\* with one of its inserts selected, and the insert the command is executed
\* with has an entry in the catalog
C30_SelectedInsertInCatalog ==
    /\ conf.pc = "loaded" => conf.INSERT_SPECS # {}
    /\ dlg.pc = "open" =>
         dlg.dialog.insertSize \in Names(conf.INSERT_SPECS)
    /\ ~dlg.raised

\* a command was executed on the defaults, the file having an [Inserts]
\* section with no valid insert and naming an insert that is gone
C30_Witness ==
    /\ dlg.pc = "closed" /\ conf.pc = "loaded"
    /\ ini.hasInserts /\ Len(ini.inserts) = 1
    /\ ~InsertAccepted(ini.inserts[1])
    /\ dlg.CONFIG.last_selected_insert = "Removed"
    /\ dlg.used.insertSize = "M3 x 5.7mm (standard)"

====
